---- MODULE Spec2Model ----
(***************************************************************************)
(* Model of gost's tun tunnel (tun.go): the relay tunHandler.transportTun  *)
(* with its two pump goroutines, the route table (sync.Map) and the error  *)
(* channel errc, and the one-shot tunListener (Accept / Close).            *)
(***************************************************************************)
EXTENDS Integers, Sequences, FiniteSets, TLC

(***************************************************************************)
(* Bounds of the model.                                                    *)
(***************************************************************************)
\* reads each pump may issue (tun.Read, conn.ReadFrom)
MaxReads == 2
\* Accept / Close calls each listener client may issue
MaxCalls == 2

(***************************************************************************)
(* Program constants.                                                      *)
(***************************************************************************)
\* errc := make(chan error, 1)
ErrcCap == 1
\* ipv4.Version
ipv4Version == 4
\* ipv4.HeaderLen, the length ipv4.ParseHeader requires
HeaderLen == 20

(***************************************************************************)
(* Values.                                                                 *)
(***************************************************************************)
\* the nil error / nil net.Addr / no buffer read yet
Nil == "nil"
\* io.EOF
EOF == "EOF"
\* errors of the four I/O calls, one value per call site
ErrTunRead == "tun.Read failed"
ErrConnWriteTo == "conn.WriteTo failed"
ErrConnReadFrom == "conn.ReadFrom failed"
ErrTunWrite == "tun.Write failed"
\* the two errors of ipv4.ParseHeader
ErrHeaderTooShort == "header too short"
ErrExtHeaderTooShort == "extension header too short"

ParseErrors == {ErrHeaderTooShort, ErrExtHeaderTooShort}

\* IPv4 addresses carried in packet headers (header.Src / header.Dst)
IPs == {"10.0.0.5", "10.0.0.9"}
\* transport (UDP) addresses: senders of datagrams, the static remote
Addrs == {"A", "B"}

\* a buffer b[:n]: its length n, the IHL and version nibbles of byte 0,
\* and the source and destination address bytes
Pkt(n, ihl, ver, src, dst) ==
    [len |-> n, ihl |-> ihl, ver |-> ver, src |-> src, dst |-> dst]

\* the buffers a read may return: the well-formed IPv4 packets between two
\* distinct addresses, an IPv6 packet, a truncated buffer, and a buffer whose
\* header length field exceeds the buffer
Packets ==
    {Pkt(20, 5, 4, sd[1], sd[2]) : sd \in {x \in IPs \X IPs : x[1] # x[2]}}
        \cup {Pkt(40, 0, 6, "10.0.0.5", "10.0.0.9")}
        \cup {Pkt(8, 5, 4, "10.0.0.5", "10.0.0.9")}
        \cup {Pkt(20, 6, 4, "10.0.0.9", "10.0.0.5")}

NoPkt == Pkt(0, 0, 0, Nil, Nil)

(***************************************************************************)
(* ipv4.ParseHeader(b[:n]): fails when the buffer is shorter than the      *)
(* fixed header or than the header length its first byte announces;        *)
(* otherwise yields the header fields (the version is NOT checked).        *)
(***************************************************************************)
ParseHeader(b) ==
    IF b.len < HeaderLen
    THEN [err |-> ErrHeaderTooShort, Version |-> 0, Src |-> Nil, Dst |-> Nil]
    ELSE IF b.len < b.ihl * 4
    THEN [err |-> ErrExtHeaderTooShort, Version |-> 0, Src |-> Nil, Dst |-> Nil]
    ELSE [err |-> Nil, Version |-> b.ver, Src |-> b.src, Dst |-> b.dst]

\* a mutant: the version test never fires
VersionIgnoredNever(header) ==
    FALSE

\* header.Version != ipv4.Version
VersionIgnored(header) ==
    header.Version # ipv4Version

(***************************************************************************)
(* sync.Map, as a function from the stored keys to their values.           *)
(***************************************************************************)
EmptyMap == [k \in {} |-> Nil]

\* routes.Load(key)
Load(m, key) ==
    IF key \in DOMAIN m
    THEN [v |-> m[key], ok |-> TRUE]
    ELSE [v |-> Nil, ok |-> FALSE]

\* a mutant: Store, overwriting an existing entry
LoadOrStoreOverwrite(m, key, value) ==
    [m |-> [k \in DOMAIN m \cup {key} |-> IF k = key THEN value ELSE m[k]],
     actual |-> value, loaded |-> key \in DOMAIN m]

\* a mutant: Load only, a missing entry is not stored
LoadOrStoreLoadOnly(m, key, value) ==
    [m |-> m, actual |-> Load(m, key).v, loaded |-> key \in DOMAIN m]

\* a mutant: storing a new entry evicts the others
LoadOrStoreEvict(m, key, value) ==
    IF key \in DOMAIN m
    THEN [m |-> m, actual |-> m[key], loaded |-> TRUE]
    ELSE [m |-> [k \in {key} |-> value], actual |-> value, loaded |-> FALSE]

\* routes.LoadOrStore(key, value)
LoadOrStore(m, key, value) ==
    IF key \in DOMAIN m
    THEN [m |-> m, actual |-> m[key], loaded |-> TRUE]
    ELSE [m |-> [k \in DOMAIN m \cup {key} |-> IF k = key THEN value ELSE m[k]],
          actual |-> value, loaded |-> FALSE]

\* a mutant: the static remote address wins over a learned one
ForwardAddrStaticFirst(m, static, header) ==
    IF static # Nil THEN static ELSE Load(m, header.Dst).v

\* addr := raddr; if v, ok := routes.Load(header.Dst.String()); ok { addr = v }
ForwardAddr(m, static, header) ==
    LET addr == static
        l == Load(m, header.Dst)
    IN  IF l.ok THEN l.v ELSE addr

\* a mutant: the end-of-stream normalisation is missing
SessionResultRaw(err) ==
    err

\* a mutant: every error is swallowed
SessionResultNone(err) ==
    Nil

\* err := <-errc; if err != nil && err == io.EOF { err = nil }; return err
SessionResult(err) ==
    IF err # Nil /\ err = EOF THEN Nil ELSE err

(***************************************************************************)
(* State.                                                                  *)
(***************************************************************************)
VARIABLES
    \* the reads each pump may issue in the behaviour explored
    quota,
    \* transportTun: the parameter raddr (nil when h.raddr == "")
    raddr,
    \* transportTun: var routes sync.Map
    routes,
    \* transportTun: errc, the values buffered in the channel
    errc,
    \* the main goroutine of transportTun: "recv" at err := <-errc, then
    \* "returned" with ret the value returned
    spc, ret,
    \* interface->transport pump: position, buffer b[:n] of the iteration,
    \* resolved addr, error being returned, reads issued
    pc1, b1, a1, e1, n1,
    \* transport->interface pump: position, buffer, sender addr, error, reads
    pc2, b2, from2, e2, n2,
    \* conn.WriteTo calls that succeeded: <<buffer, address>>, in order
    net,
    \* tun.Write calls that succeeded: buffers, in order
    tun,
    \* history: every value sent on errc, in order of the sends
    delivered,
    \* history: the buffers tun.Read / conn.ReadFrom returned, in order
    rd1, rd2,
    \* history: the Put calls made, as <<pool the buffer was drawn from,
    \* pool it was put into>>
    puts,
    \* tunListener: the channels accepted and closed (TRUE = closed channel)
    accepted, closed,
    \* listener clients: position, the call in progress or last made
    \* ("accept" / "close"), the value it returned, calls made
    lpc, lop, lret, lcalls,
    \* history: per client, whether closed / accepted was already signalled
    \* when its call began, and whether the call was the first of its kind
    sawClosed, sawAccepted, lfirst,
    \* history: an Accept / a Close call has begun on the listener
    acceptCalled, closeCalled,
    \* history: number of Accept calls that returned l.conn
    handed,
    \* a goroutine panicked (close of closed channel): the process is gone
    panicked,
    \* Handle: position, the deferred calls registered (in order of the defer
    \* statements), whether the interface / the connection is open
    hpc, defers, tunHeld, connHeld,
    \* history: the step of Handle that failed, nil when none did
    hfail

rvars == <<quota, raddr, routes, errc, spc, ret, pc1, b1, a1, e1, n1,
           pc2, b2, from2, e2, n2, net, tun, delivered, rd1, rd2, puts>>
lvars == <<accepted, closed, lpc, lop, lret, lcalls, sawClosed, sawAccepted,
           lfirst, acceptCalled, closeCalled, handed, panicked>>
hvars == <<hpc, defers, tunHeld, connHeld, hfail>>
vars == <<rvars, lvars, hvars>>

\* the clients (goroutines) that call Accept and Close on one listener
Clients == {"g1", "g2", "g3"}

\* values returned by Accept and Close; Pending while the call is running
Conn == "l.conn"
Pending == "pending"
ErrAcceptClosed == "accept on closed listener"
ErrListenerClosed == "listener has been closed"

\* transportTun entered: empty table, empty channel, both pumps started
RelayInit ==
    /\ raddr \in Addrs \cup {Nil}
    /\ routes = EmptyMap
    /\ errc = <<>>
    /\ spc = "recv" /\ ret = Nil
    /\ pc1 = "read" /\ b1 = NoPkt /\ a1 = Nil /\ e1 = Nil /\ n1 = 0
    /\ pc2 = "read" /\ b2 = NoPkt /\ from2 = Nil /\ e2 = Nil /\ n2 = 0
    /\ net = <<>> /\ tun = <<>>
    /\ delivered = <<>>
    /\ rd1 = <<>> /\ rd2 = <<>>
    /\ puts = {}

\* TunListener(addr): both channels open, nobody called yet
ListenerInit ==
    /\ accepted = FALSE /\ closed = FALSE
    /\ lpc = [g \in Clients |-> "idle"]
    /\ lop = [g \in Clients |-> "none"]
    /\ lret = [g \in Clients |-> Nil]
    /\ lcalls = [g \in Clients |-> 0]
    /\ sawClosed = [g \in Clients |-> FALSE]
    /\ sawAccepted = [g \in Clients |-> FALSE]
    /\ lfirst = [g \in Clients |-> FALSE]
    /\ acceptCalled = FALSE /\ closeCalled = FALSE
    /\ handed = 0
    /\ panicked = FALSE

\* Handle has called transportTun: the three defers are registered, the
\* interface and the connection are open
HandlerAtRelay ==
    /\ hpc = "relay"
    /\ defers = <<"os.Exit", "conn.Close", "tc.Close">>
    /\ tunHeld = TRUE /\ connHeld = TRUE
    /\ hfail = Nil

Init ==
    RelayInit /\ ListenerInit /\ HandlerAtRelay /\ quota = MaxReads

\* the goroutines of transportTun exist: it was called and the process has
\* not exited
PumpsRunning ==
    hpc \in {"relay", "deferred"}

\* the pools of tun.go's buffers
sPool == "sPool"
mPool == "mPool"

\* first goroutine: b := sPool.Get().([]byte); defer sPool.Put(b)
GetPool1 == sPool
PutPool1 == sPool

\* second goroutine: b := sPool.Get().([]byte); defer mPool.Put(b)
GetPool2 == sPool
PutPool2 == mPool

\* the deferred Put of an iteration of the first / second goroutine
Put1(ps) ==
    ps \cup {<<GetPool1, PutPool1>>}

Put2(ps) ==
    ps \cup {<<GetPool2, PutPool2>>}

\* a mutant: the write is issued twice
ConnWriteToTwice(log, b, addr) ==
    Append(Append(log, <<b, addr>>), <<b, addr>>)

\* conn.WriteTo(b[:n], addr): one datagram, the bytes of b[:n], to addr
ConnWriteTo(log, b, addr) ==
    Append(log, <<b, addr>>)

\* tun.Write(b[:n]): one packet, the bytes of b[:n]
TunWrite(log, b) ==
    Append(log, b)

\* a mutant: the missing address is not noticed
NoAddressNever(addr) ==
    FALSE

\* if addr == nil
NoAddress(addr) ==
    addr = Nil

\* a mutant: errc := make(chan error), a send needs the session at its receive
CanSendUnbuffered(ch) ==
    Len(ch) < ErrcCap /\ spc = "recv"

\* errc <- err can proceed: the buffer has room
CanSend(ch) ==
    Len(ch) < ErrcCap

\* a mutant: the session waits for both pumps to exit before it receives
RecvReadyBoth(ch) ==
    Len(ch) > 0 /\ pc1 = "exit" /\ pc2 = "exit"

\* err := <-errc can proceed: a value is buffered
RecvReady(ch) ==
    Len(ch) > 0

(***************************************************************************)
(* Interface -> transport pump (first goroutine of transportTun).          *)
(* Each iteration draws its buffer (Get) before the read and puts it back  *)
(* (deferred Put) when the iteration's function returns.                   *)
(***************************************************************************)
\* n, err := tun.Read(b) fails (nothing read, b[:n] is empty): return err
P1ReadError ==
    /\ PumpsRunning
    /\ pc1 = "read" /\ n1 < quota
    /\ \E e \in {EOF, ErrTunRead} :
         /\ e1' = e
         /\ pc1' = "send"
    /\ b1' = NoPkt
    /\ n1' = n1 + 1
    /\ puts' = Put1(puts)
    /\ UNCHANGED <<quota, raddr, routes, errc, spc, ret, a1,
                   pc2, b2, from2, e2, n2, net, tun, delivered, rd1, rd2>>
    /\ UNCHANGED lvars
    /\ UNCHANGED hvars

\* tun.Read returns a buffer; ParseHeader; the version test
P1Read ==
    /\ PumpsRunning /\ tunHeld
    /\ pc1 = "read" /\ n1 < quota
    /\ \E b \in Packets :
         LET header == ParseHeader(b)
         IN  /\ b1' = b
             /\ rd1' = Append(rd1, b)
             /\ IF header.err # Nil
                THEN \* log; return err
                     /\ e1' = header.err
                     /\ pc1' = "send"
                     /\ puts' = Put1(puts)
                ELSE IF VersionIgnored(header)
                THEN \* log; return nil: next iteration
                     /\ e1' = e1
                     /\ pc1' = "read"
                     /\ puts' = Put1(puts)
                ELSE /\ e1' = e1
                     /\ pc1' = "route"
                     /\ puts' = puts
    /\ n1' = n1 + 1
    /\ UNCHANGED <<quota, raddr, routes, errc, spc, ret, a1,
                   pc2, b2, from2, e2, n2, net, tun, delivered, rd2>>
    /\ UNCHANGED lvars
    /\ UNCHANGED hvars

\* addr := raddr; routes.Load; if addr == nil { log; return nil }
P1Route ==
    /\ PumpsRunning
    /\ pc1 = "route"
    /\ LET addr == ForwardAddr(routes, raddr, ParseHeader(b1))
       IN  IF NoAddress(addr)
           THEN /\ pc1' = "read"
                /\ a1' = a1
                /\ puts' = Put1(puts)
           ELSE /\ pc1' = "write"
                /\ a1' = addr
                /\ puts' = puts
    /\ UNCHANGED <<quota, raddr, routes, errc, spc, ret, b1, e1, n1,
                   pc2, b2, from2, e2, n2, net, tun, delivered, rd1, rd2>>
    /\ UNCHANGED lvars
    /\ UNCHANGED hvars

\* conn.WriteTo(b[:n], addr) succeeds: return nil
P1Write ==
    /\ PumpsRunning /\ connHeld
    /\ pc1 = "write"
    /\ net' = ConnWriteTo(net, b1, a1)
    /\ pc1' = "read"
    /\ puts' = Put1(puts)
    /\ UNCHANGED <<quota, raddr, routes, errc, spc, ret, b1, a1, e1, n1,
                   pc2, b2, from2, e2, n2, tun, delivered, rd1, rd2>>
    /\ UNCHANGED lvars
    /\ UNCHANGED hvars

\* conn.WriteTo fails: return err
P1WriteError ==
    /\ PumpsRunning
    /\ pc1 = "write"
    /\ e1' = ErrConnWriteTo
    /\ pc1' = "send"
    /\ puts' = Put1(puts)
    /\ UNCHANGED <<quota, raddr, routes, errc, spc, ret, b1, a1, n1,
                   pc2, b2, from2, e2, n2, net, tun, delivered, rd1, rd2>>
    /\ UNCHANGED lvars
    /\ UNCHANGED hvars

\* if err != nil { errc <- err; return }: blocks while the buffer is full
P1Send ==
    /\ PumpsRunning
    /\ pc1 = "send"
    /\ CanSend(errc)
    /\ errc' = Append(errc, e1)
    /\ delivered' = Append(delivered, e1)
    /\ pc1' = "exit"
    /\ UNCHANGED <<quota, raddr, routes, spc, ret, b1, a1, e1, n1,
                   pc2, b2, from2, e2, n2, net, tun, rd1, rd2, puts>>
    /\ UNCHANGED lvars
    /\ UNCHANGED hvars

(***************************************************************************)
(* Transport -> interface pump (second goroutine of transportTun).         *)
(***************************************************************************)
\* n, addr, err := conn.ReadFrom(b) fails (nothing read): return err
P2ReadError ==
    /\ PumpsRunning
    /\ pc2 = "read" /\ n2 < quota
    /\ \E e \in {EOF, ErrConnReadFrom} :
         /\ e2' = e
         /\ pc2' = "send"
    /\ b2' = NoPkt /\ from2' = Nil
    /\ n2' = n2 + 1
    /\ puts' = Put2(puts)
    /\ UNCHANGED <<quota, raddr, routes, errc, spc, ret, pc1, b1, a1, e1, n1,
                   net, tun, delivered, rd1, rd2>>
    /\ UNCHANGED lvars
    /\ UNCHANGED hvars

\* conn.ReadFrom returns a datagram and its sender; ParseHeader; version test
P2Read ==
    /\ PumpsRunning /\ connHeld
    /\ pc2 = "read" /\ n2 < quota
    /\ \E b \in Packets, addr \in Addrs :
         LET header == ParseHeader(b)
         IN  /\ b2' = b
             /\ from2' = addr
             /\ rd2' = Append(rd2, b)
             /\ IF header.err # Nil
                THEN \* log; return err
                     /\ e2' = header.err
                     /\ pc2' = "send"
                     /\ puts' = Put2(puts)
                ELSE IF VersionIgnored(header)
                THEN \* log; return nil: next iteration
                     /\ e2' = e2
                     /\ pc2' = "read"
                     /\ puts' = Put2(puts)
                ELSE /\ e2' = e2
                     /\ pc2' = "learn"
                     /\ puts' = puts
    /\ n2' = n2 + 1
    /\ UNCHANGED <<quota, raddr, routes, errc, spc, ret, pc1, b1, a1, e1, n1,
                   net, tun, delivered, rd1>>
    /\ UNCHANGED lvars
    /\ UNCHANGED hvars

\* routes.LoadOrStore(header.Src.String(), addr); a mismatch is only logged
P2Learn ==
    /\ PumpsRunning
    /\ pc2 = "learn"
    /\ routes' = LoadOrStore(routes, ParseHeader(b2).Src, from2).m
    /\ pc2' = "write"
    /\ UNCHANGED <<quota, raddr, errc, spc, ret, pc1, b1, a1, e1, n1,
                   b2, from2, e2, n2, net, tun, delivered, rd1, rd2, puts>>
    /\ UNCHANGED lvars
    /\ UNCHANGED hvars

\* tun.Write(b[:n]) succeeds: return nil
P2Write ==
    /\ PumpsRunning /\ tunHeld
    /\ pc2 = "write"
    /\ tun' = TunWrite(tun, b2)
    /\ pc2' = "read"
    /\ puts' = Put2(puts)
    /\ UNCHANGED <<quota, raddr, routes, errc, spc, ret, pc1, b1, a1, e1, n1,
                   b2, from2, e2, n2, net, delivered, rd1, rd2>>
    /\ UNCHANGED lvars
    /\ UNCHANGED hvars

\* tun.Write fails: return err
P2WriteError ==
    /\ PumpsRunning
    /\ pc2 = "write"
    /\ e2' = ErrTunWrite
    /\ pc2' = "send"
    /\ puts' = Put2(puts)
    /\ UNCHANGED <<quota, raddr, routes, errc, spc, ret, pc1, b1, a1, e1, n1,
                   b2, from2, n2, net, tun, delivered, rd1, rd2>>
    /\ UNCHANGED lvars
    /\ UNCHANGED hvars

\* if err != nil { errc <- err; return }: blocks while the buffer is full
P2Send ==
    /\ PumpsRunning
    /\ pc2 = "send"
    /\ CanSend(errc)
    /\ errc' = Append(errc, e2)
    /\ delivered' = Append(delivered, e2)
    /\ pc2' = "exit"
    /\ UNCHANGED <<quota, raddr, routes, spc, ret, pc1, b1, a1, e1, n1,
                   b2, from2, e2, n2, net, tun, rd1, rd2, puts>>
    /\ UNCHANGED lvars
    /\ UNCHANGED hvars

(***************************************************************************)
(* The main goroutine of transportTun.                                     *)
(***************************************************************************)
\* err := <-errc; normalise io.EOF; log; return err
SessionReturn ==
    /\ hpc = "relay"
    /\ spc = "recv"
    /\ RecvReady(errc)
    /\ ret' = SessionResult(Head(errc))
    /\ errc' = Tail(errc)
    /\ spc' = "returned"
    /\ UNCHANGED <<quota, raddr, routes, pc1, b1, a1, e1, n1,
                   pc2, b2, from2, e2, n2, net, tun, delivered, rd1, rd2, puts>>
    /\ UNCHANGED lvars
    /\ UNCHANGED hvars

Next ==
    \/ P1ReadError \/ P1Read \/ P1Route \/ P1Write \/ P1WriteError \/ P1Send
    \/ P2ReadError \/ P2Read \/ P2Learn \/ P2Write \/ P2WriteError \/ P2Send
    \/ SessionReturn

\* the relay: transportTun with its two pumps
Spec ==
    Init /\ [][Next]_vars

\* the relay under a scheduler that runs every goroutine able to send on or
\* receive from errc; a read may block for ever
RelayFairness ==
    /\ WF_vars(P1Send) /\ WF_vars(P2Send) /\ WF_vars(SessionReturn)

\* reads each pump may issue when the fair relay is explored
MaxFairReads == 1

FairInit ==
    RelayInit /\ ListenerInit /\ HandlerAtRelay /\ quota = MaxFairReads

FairSpec ==
    FairInit /\ [][Next]_vars /\ RelayFairness

(***************************************************************************)
(* tunHandler.Handle and createTun.  Deferred calls are pushed as the      *)
(* defer statements execute and run when Handle returns.                   *)
(***************************************************************************)
\* reads each pump may issue when the whole handler is explored
MaxHandlerReads == 1

\* the /sbin/ip commands of createTun, in order
SetupSteps == <<"link set mtu", "addr add", "link set up">>

\* a mutant: deferred calls run in the order of their defer statements
NextDeferredFirst(ds) ==
    Len(ds) - Len(ds) + 1

\* return: the deferred call run next is the one registered last
NextDeferred(ds) ==
    Len(ds)

\* the deferred calls left after the i-th has run
RemoveAt(ds, i) ==
    SubSeq(ds, 1, i - 1) \o SubSeq(ds, i + 1, Len(ds))

\* Handle is entered with an open connection and no interface
HandlerStart ==
    /\ hpc = "start"
    /\ defers = <<>>
    /\ tunHeld = FALSE /\ connHeld = TRUE
    /\ hfail = Nil

HandlerInit ==
    RelayInit /\ ListenerInit /\ HandlerStart /\ quota = MaxHandlerReads

\* defer os.Exit(0); defer conn.Close(); uc, ok := conn.(net.PacketConn)
HEnter ==
    /\ hpc = "start"
    /\ defers' = <<"os.Exit", "conn.Close">>
    /\ \E ok \in BOOLEAN :
         IF ok
         THEN hpc' = "ParseCIDR" /\ hfail' = hfail
         ELSE hpc' = "deferred" /\ hfail' = "PacketConn"
    /\ UNCHANGED <<tunHeld, connHeld>>
    /\ UNCHANGED rvars
    /\ UNCHANGED lvars

\* createTun: ip, _, err := net.ParseCIDR(cfg.Addr); on error return
HParseCIDR ==
    /\ hpc = "ParseCIDR"
    /\ \E ok \in BOOLEAN :
         IF ok
         THEN hpc' = "water.New" /\ hfail' = hfail
         ELSE hpc' = "deferred" /\ hfail' = "ParseCIDR"
    /\ UNCHANGED <<defers, tunHeld, connHeld>>
    /\ UNCHANGED rvars
    /\ UNCHANGED lvars

\* createTun: ifce, err := water.New(...); on error return
HWaterNew ==
    /\ hpc = "water.New"
    /\ \E ok \in BOOLEAN :
         IF ok
         THEN hpc' = SetupSteps[1] /\ tunHeld' = TRUE /\ hfail' = hfail
         ELSE hpc' = "deferred" /\ tunHeld' = tunHeld /\ hfail' = "water.New"
    /\ UNCHANGED <<defers, connHeld>>
    /\ UNCHANGED rvars
    /\ UNCHANGED lvars

\* createTun: if err = setup(...); err != nil { return }, for each command;
\* after the last one createTun returns tc and Handle runs defer tc.Close()
HSetup ==
    /\ \E i \in DOMAIN SetupSteps :
         /\ hpc = SetupSteps[i]
         /\ \E ok \in BOOLEAN :
              IF ~ok
              THEN hpc' = "deferred" /\ hfail' = SetupSteps[i]
                   /\ defers' = defers
              ELSE IF i < Len(SetupSteps)
              THEN hpc' = SetupSteps[i + 1] /\ hfail' = hfail
                   /\ defers' = defers
              ELSE hpc' = "resolve" /\ hfail' = hfail
                   /\ defers' = Append(defers, "tc.Close")
    /\ UNCHANGED <<tunHeld, connHeld>>
    /\ UNCHANGED rvars
    /\ UNCHANGED lvars

\* if h.raddr != "" { raddr, err = net.ResolveUDPAddr(...) }; on error return
HResolve ==
    /\ hpc = "resolve"
    /\ IF raddr = Nil
       THEN hpc' = "cipher" /\ hfail' = hfail
       ELSE \E ok \in BOOLEAN :
              IF ok
              THEN hpc' = "cipher" /\ hfail' = hfail
              ELSE hpc' = "deferred" /\ hfail' = "ResolveUDPAddr"
    /\ UNCHANGED <<defers, tunHeld, connHeld>>
    /\ UNCHANGED rvars
    /\ UNCHANGED lvars

\* if len(h.options.Users) > 0 ... core.PickCipher; on error return;
\* then h.transportTun(tc, uc, raddr) is called
HCipher ==
    /\ hpc = "cipher"
    /\ \E ok \in BOOLEAN :
         IF ok
         THEN hpc' = "relay" /\ hfail' = hfail
         ELSE hpc' = "deferred" /\ hfail' = "PickCipher"
    /\ UNCHANGED <<defers, tunHeld, connHeld>>
    /\ UNCHANGED rvars
    /\ UNCHANGED lvars

\* h.transportTun returns; Handle reaches its end
HRelayReturn ==
    /\ hpc = "relay"
    /\ spc = "returned"
    /\ hpc' = "deferred"
    /\ UNCHANGED <<defers, tunHeld, connHeld, hfail>>
    /\ UNCHANGED rvars
    /\ UNCHANGED lvars

\* Handle returns: one deferred call runs; with none left Handle is back in
\* its caller
HDeferred ==
    /\ hpc = "deferred"
    /\ IF defers = <<>>
       THEN /\ hpc' = "returned"
            /\ UNCHANGED <<defers, tunHeld, connHeld>>
       ELSE LET i == NextDeferred(defers)
                d == defers[i]
            IN  /\ defers' = RemoveAt(defers, i)
                /\ tunHeld' = IF d = "tc.Close" THEN FALSE ELSE tunHeld
                /\ connHeld' = IF d = "conn.Close" THEN FALSE ELSE connHeld
                /\ hpc' = IF d = "os.Exit" THEN "exited" ELSE hpc
    /\ UNCHANGED hfail
    /\ UNCHANGED rvars
    /\ UNCHANGED lvars

HandlerNext ==
    \/ HEnter \/ HParseCIDR \/ HWaterNew \/ HSetup \/ HResolve \/ HCipher
    \/ HRelayReturn \/ HDeferred
    \/ Next

\* a connection handled from Handle's entry to the exit of the process
SpecHandler ==
    HandlerInit /\ [][HandlerNext]_vars

(***************************************************************************)
(* tunListener: Accept and Close, called by the goroutines of Clients.     *)
(* A receive from a channel is ready exactly when the channel is closed    *)
(* (nothing is ever sent on accepted or closed); close() of a closed       *)
(* channel panics, which ends the process.                                 *)
(***************************************************************************)
\* Accept: select { case <-l.accepted: default: ... }
AcceptSelect(isAccepted) ==
    IF isAccepted THEN "acceptWait" ELSE "acceptClose"

\* a mutant: the second select does not wait for closed
AcceptWaitReadyAlways(isClosed) ==
    TRUE

\* Accept: select { case <-l.closed: }
AcceptWaitReady(isClosed) ==
    isClosed

\* a mutant: Close never sees the closed signal
CloseSelectAlwaysDefault(isClosed) ==
    "closeClose"

\* Close: select { case <-l.closed: return error; default: ... }
CloseSelect(isClosed) ==
    IF isClosed THEN "idle" ELSE "closeClose"

\* Accept is entered and runs its first select
AcceptEnter(g) ==
    /\ ~panicked
    /\ lpc[g] = "idle" /\ lcalls[g] < MaxCalls
    /\ lpc' = [lpc EXCEPT ![g] = AcceptSelect(accepted)]
    /\ lop' = [lop EXCEPT ![g] = "accept"]
    /\ lret' = [lret EXCEPT ![g] = Pending]
    /\ lcalls' = [lcalls EXCEPT ![g] = @ + 1]
    /\ sawClosed' = [sawClosed EXCEPT ![g] = closed]
    /\ sawAccepted' = [sawAccepted EXCEPT ![g] = accepted]
    /\ lfirst' = [lfirst EXCEPT ![g] = ~acceptCalled]
    /\ acceptCalled' = TRUE
    /\ UNCHANGED <<accepted, closed, closeCalled, handed, panicked>>
    /\ UNCHANGED rvars
    /\ UNCHANGED hvars

\* default branch of Accept: close(l.accepted); return l.conn, nil
AcceptSignal(g) ==
    /\ ~panicked
    /\ lpc[g] = "acceptClose"
    /\ ~accepted
    /\ accepted' = TRUE
    /\ lret' = [lret EXCEPT ![g] = Conn]
    /\ handed' = handed + 1
    /\ lpc' = [lpc EXCEPT ![g] = "idle"]
    /\ UNCHANGED <<closed, lop, lcalls, sawClosed, sawAccepted, lfirst,
                   acceptCalled, closeCalled, panicked>>
    /\ UNCHANGED rvars
    /\ UNCHANGED hvars

\* default branch of Accept when another Accept has closed l.accepted since
\* the select: close of closed channel
AcceptPanic(g) ==
    /\ ~panicked
    /\ lpc[g] = "acceptClose"
    /\ accepted
    /\ panicked' = TRUE
    /\ UNCHANGED <<accepted, closed, lpc, lop, lret, lcalls, sawClosed,
                   sawAccepted, lfirst, acceptCalled, closeCalled, handed>>
    /\ UNCHANGED rvars
    /\ UNCHANGED hvars

\* second select of Accept: <-l.closed; return nil, error
AcceptWait(g) ==
    /\ ~panicked
    /\ lpc[g] = "acceptWait"
    /\ AcceptWaitReady(closed)
    /\ lret' = [lret EXCEPT ![g] = ErrAcceptClosed]
    /\ lpc' = [lpc EXCEPT ![g] = "idle"]
    /\ UNCHANGED <<accepted, closed, lop, lcalls, sawClosed, sawAccepted,
                   lfirst, acceptCalled, closeCalled, handed, panicked>>
    /\ UNCHANGED rvars
    /\ UNCHANGED hvars

\* Close is entered and runs its select; with closed signalled it returns
\* the error at once
CloseEnter(g) ==
    /\ ~panicked
    /\ lpc[g] = "idle" /\ lcalls[g] < MaxCalls
    /\ lpc' = [lpc EXCEPT ![g] = CloseSelect(closed)]
    /\ lop' = [lop EXCEPT ![g] = "close"]
    /\ lret' = [lret EXCEPT ![g] =
                  IF CloseSelect(closed) = "idle" THEN ErrListenerClosed
                  ELSE Pending]
    /\ lcalls' = [lcalls EXCEPT ![g] = @ + 1]
    /\ sawClosed' = [sawClosed EXCEPT ![g] = closed]
    /\ sawAccepted' = [sawAccepted EXCEPT ![g] = accepted]
    /\ lfirst' = [lfirst EXCEPT ![g] = ~closeCalled]
    /\ closeCalled' = TRUE
    /\ UNCHANGED <<accepted, closed, acceptCalled, handed, panicked>>
    /\ UNCHANGED rvars
    /\ UNCHANGED hvars

\* default branch of Close: close(l.closed); return nil
CloseSignal(g) ==
    /\ ~panicked
    /\ lpc[g] = "closeClose"
    /\ ~closed
    /\ closed' = TRUE
    /\ lret' = [lret EXCEPT ![g] = Nil]
    /\ lpc' = [lpc EXCEPT ![g] = "idle"]
    /\ UNCHANGED <<accepted, lop, lcalls, sawClosed, sawAccepted, lfirst,
                   acceptCalled, closeCalled, handed, panicked>>
    /\ UNCHANGED rvars
    /\ UNCHANGED hvars

\* default branch of Close when another Close has closed l.closed since the
\* select: close of closed channel
ClosePanic(g) ==
    /\ ~panicked
    /\ lpc[g] = "closeClose"
    /\ closed
    /\ panicked' = TRUE
    /\ UNCHANGED <<accepted, closed, lpc, lop, lret, lcalls, sawClosed,
                   sawAccepted, lfirst, acceptCalled, closeCalled, handed>>
    /\ UNCHANGED rvars
    /\ UNCHANGED hvars

ListenerNext ==
    \E g \in Clients :
        \/ AcceptEnter(g) \/ AcceptSignal(g) \/ AcceptPanic(g) \/ AcceptWait(g)
        \/ CloseEnter(g) \/ CloseSignal(g) \/ ClosePanic(g)

\* the listener with its clients
SpecListener ==
    Init /\ [][ListenerNext]_vars

\* every goroutine that can take a step eventually takes it
ListenerFairness ==
    \A g \in Clients :
        /\ WF_vars(AcceptSignal(g)) /\ WF_vars(AcceptPanic(g))
        /\ WF_vars(AcceptWait(g))
        /\ WF_vars(CloseSignal(g)) /\ WF_vars(ClosePanic(g))

\* the listener under a fair scheduler
FairSpecListener ==
    SpecListener /\ ListenerFairness

(***************************************************************************)
(* Properties of the relay.                                                *)
(***************************************************************************)
\* the buffer parses as an IPv4 header
Parses(b) ==
    ParseHeader(b).err = Nil

\* the buffer parses and its version is 4
ValidIPv4(b) ==
    Parses(b) /\ ParseHeader(b).Version = 4

\* the buffer parses and its version is not 4
OtherVersion(b) ==
    Parses(b) /\ ParseHeader(b).Version # 4

\* C1: in both pumps a buffer whose IPv4 header fails to parse is dropped
\* locally: no parse error is ever held by a pump for delivery, sent on the
\* error channel, or returned by the session, and a pump that read such a
\* buffer is at its next read.
C1_ParseFailureDropped ==
    /\ pc1 \in {"send", "exit"} => e1 \notin ParseErrors
    /\ pc2 \in {"send", "exit"} => e2 \notin ParseErrors
    /\ \A i \in DOMAIN delivered : delivered[i] \notin ParseErrors
    /\ ret \notin ParseErrors
    /\ (b1 # NoPkt /\ ~Parses(b1)) => pc1 = "read"
    /\ (b2 # NoPkt /\ ~Parses(b2)) => pc2 = "read"

\* C2: once a source IP is mapped in the learning table the mapping is never
\* removed or overwritten: every step keeps every stored entry, and the learn
\* step of a datagram whose source is already mapped leaves the address of the
\* first observation in place.
C2_FirstWriterWins ==
    [][/\ \A ip \in DOMAIN routes :
            ip \in DOMAIN routes' /\ routes'[ip] = routes[ip]
       /\ (pc2 = "learn" /\ pc2' = "write") =>
            /\ b2.src \in DOMAIN routes'
            /\ routes'[b2.src] =
                 IF b2.src \in DOMAIN routes THEN routes[b2.src] ELSE from2]_vars

\* C2 witness: a datagram whose source IP is already mapped to another sender
\* address has passed the learn step.
C2_Witness ==
    /\ pc2 = "write"
    /\ b2.src \in DOMAIN routes
    /\ routes[b2.src] # from2

\* the address the table and the static remote give for destination dst
ExpectedAddr(dst) ==
    IF dst \in DOMAIN routes THEN routes[dst] ELSE raddr

\* C3 (as stated): every valid IPv4 packet read from the interface goes on to
\* be written, at the learned address for its destination when the table holds
\* one and otherwise at the static remote address.
C3_AlwaysWritten ==
    [][(pc1 = "route" /\ pc1' # "route") =>
          /\ pc1' = "write"
          /\ a1' = ExpectedAddr(b1.dst)
          /\ a1' # Nil]_vars

\* C3 (amended): a valid IPv4 packet read from the interface is resolved to the
\* learned address of its destination when the table holds one at the lookup
\* (even with a static remote configured) and otherwise to the static remote;
\* with an address it gets one WriteTo, of its own bytes at that address, and
\* with neither it is dropped without a write.
C3_ForwardAddress ==
    [][/\ (pc1 = "route" /\ pc1' # "route") =>
            IF ExpectedAddr(b1.dst) # Nil
            THEN pc1' = "write" /\ a1' = ExpectedAddr(b1.dst) /\ net' = net
            ELSE pc1' = "read" /\ net' = net
       /\ (pc1 = "write" /\ pc1' # "write") =>
            \/ pc1' = "read" /\ net' = Append(net, <<b1, a1>>)
            \/ pc1' = "send" /\ net' = net /\ e1' = ErrConnWriteTo
       /\ net' # net => pc1 = "write"
       /\ pc1 = "write" => (a1' = a1 /\ b1' = b1)]_vars

\* C3 witness: with a static remote configured, a packet has been written at a
\* learned address that differs from it.
C3_Witness ==
    /\ raddr # Nil
    /\ \E i \in DOMAIN net :
         /\ ValidIPv4(net[i][1])
         /\ net[i][2] # raddr
         /\ net[i][1].dst \in DOMAIN routes
         /\ routes[net[i][1].dst] = net[i][2]

\* C4: when the first error delivered on the error channel is end-of-stream,
\* the session returns success, whatever the other pump did before or does
\* after.
C4_EofIsSuccess ==
    (spc = "returned" /\ Len(delivered) > 0 /\ delivered[1] = EOF) => ret = Nil

\* C4 witness: the session returned after an end-of-stream was delivered first
\* and the other pump then delivered a failure.
C4_Witness ==
    /\ spc = "returned"
    /\ Len(delivered) = 2
    /\ delivered[1] = EOF
    /\ delivered[2] \notin {EOF, Nil}

\* C5: when the first error delivered is not end-of-stream the session returns
\* exactly that error, and once the session has returned its result never
\* changes.
C5_FirstErrorReturned ==
    /\ [](spc = "returned" =>
            /\ Len(delivered) > 0
            /\ delivered[1] # EOF => ret = delivered[1])
    /\ [][spc = "returned" => (spc' = "returned" /\ ret' = ret)]_vars

\* C5 witness: the session returned the interface read failure delivered
\* first, and the other pump has failed differently since.
C5_Witness ==
    /\ spc = "returned"
    /\ Len(delivered) = 2
    /\ delivered[1] = ErrTunRead
    /\ delivered[2] = ErrConnReadFrom
    /\ ret = ErrTunRead

\* C10: a buffer that parses with a version other than 4 is dropped without an
\* error in both pumps: the read step that meets it leaves the pump at its
\* next read and changes neither the written packets, nor the table, nor the
\* error channel; only valid IPv4 buffers are ever routed, learned or written.
C10_OtherVersionDropped ==
    /\ [](/\ pc1 \in {"route", "write"} => ValidIPv4(b1)
          /\ pc2 \in {"learn", "write"} => ValidIPv4(b2)
          /\ \A i \in DOMAIN net : ValidIPv4(net[i][1])
          /\ \A i \in DOMAIN tun : ValidIPv4(tun[i]))
    /\ [][/\ (n1' = n1 + 1 /\ OtherVersion(b1')) =>
               /\ pc1' = "read"
               /\ UNCHANGED <<net, tun, routes, errc, delivered, e1>>
          /\ (n2' = n2 + 1 /\ OtherVersion(b2')) =>
               /\ pc2' = "read"
               /\ UNCHANGED <<net, tun, routes, errc, delivered, e2>>]_vars

\* C10 witness: each pump has read a version-6 packet and is at its next read.
C10_Witness ==
    /\ n1 > 0 /\ pc1 = "read" /\ OtherVersion(b1)
    /\ n2 > 0 /\ pc2 = "read" /\ OtherVersion(b2)

(***************************************************************************)
(* Properties of the listener.  Calls are ordered by their first select:   *)
(* a call is "after" an Accept (a Close) that has returned when it begins  *)
(* with accepted (closed) already signalled.                               *)
(***************************************************************************)
\* C6: the first Accept call never parks and returns nothing but the wrapped
\* socket; at most one Accept ever returns a connection; an Accept begun after
\* the connection was handed out never returns it, and returns (the
\* listener-closed error) only once Close has signalled closed.
C6_AcceptOnce ==
    /\ handed <= 1
    /\ \A g \in Clients :
         lop[g] = "accept" =>
           /\ lfirst[g] =>
                /\ lpc[g] # "acceptWait"
                /\ lret[g] \in {Pending, Conn}
           /\ sawAccepted[g] =>
                /\ lpc[g] \in {"acceptWait", "idle"}
                /\ lret[g] \in {Pending, ErrAcceptClosed}
                /\ lpc[g] = "acceptWait" => lret[g] = Pending
                /\ lret[g] = ErrAcceptClosed => closed

\* C6 witness: the first Accept returned the socket, and a later Accept that
\* began before Close was parked and has returned the error after Close.
C6_Witness ==
    \E g, h \in Clients :
        /\ lop[g] = "accept" /\ lfirst[g] /\ lret[g] = Conn
        /\ lop[h] = "accept" /\ sawAccepted[h] /\ ~sawClosed[h]
        /\ lret[h] = ErrAcceptClosed
        /\ \E k \in Clients : lop[k] = "accept" /\ lpc[k] = "acceptWait"

\* C7: an Accept call made after the listener has been closed never hands out
\* a connection: it fails with the listener-closed error, also when no Accept
\* had succeeded before Close.
C7_AcceptAfterCloseFails ==
    \A g \in Clients :
        (lop[g] = "accept" /\ sawClosed[g]) =>
            /\ lret[g] \in {Pending, ErrAcceptClosed}
            /\ lpc[g] # "acceptClose"

\* C8: the first Close call signals closed and returns success; every Close
\* call begun with closed signalled returns the already-closed error at once
\* and changes neither signal; closed is never taken back.
C8_CloseOnce ==
    /\ [](\A g \in Clients :
            lop[g] = "close" =>
              /\ lfirst[g] =>
                   /\ lret[g] \in {Pending, Nil}
                   /\ lret[g] = Nil => closed
              /\ sawClosed[g] =>
                   /\ lpc[g] = "idle"
                   /\ lret[g] = ErrListenerClosed)
    /\ [][/\ closed => closed'
          /\ \A g \in Clients :
               (lcalls'[g] # lcalls[g] /\ lop'[g] = "close" /\ closed) =>
                   /\ accepted' = accepted
                   /\ closed' = closed
                   /\ panicked' = panicked
                   /\ handed' = handed]_vars

\* C8 witness: the first Close returned success and two later Close calls have
\* returned the already-closed error.
C8_Witness ==
    \E g, h, k \in Clients :
        /\ g # h /\ h # k /\ g # k
        /\ lop[g] = "close" /\ lfirst[g] /\ lret[g] = Nil
        /\ lop[h] = "close" /\ sawClosed[h] /\ lret[h] = ErrListenerClosed
        /\ lop[k] = "close" /\ sawClosed[k] /\ lret[k] = ErrListenerClosed

\* C9: every goroutine parked in Accept is eventually released once closed is
\* signalled: it returns the listener-closed error.
C9_ParkedReleased ==
    \A g \in Clients :
        (lpc[g] = "acceptWait" /\ closed)
            ~> (lpc[g] = "idle" /\ lret[g] = ErrAcceptClosed)

(***************************************************************************)
(* Properties of the relay, continued.                                     *)
(***************************************************************************)
\* C11: when the lookup step of the interface->transport pump handles a valid
\* IPv4 packet whose destination has no learned mapping and no static remote
\* address is configured, the packet is dropped: nothing is written to the
\* transport, no error is held or sent on the error channel, and the pump is
\* at its next read.
C11_NoAddressDropped ==
    [][(/\ pc1 = "route" /\ pc1' # "route"
        /\ raddr = Nil
        /\ ~Load(routes, ParseHeader(b1).Dst).ok)
       => /\ pc1' = "read"
          /\ net' = net
          /\ e1' = e1 /\ errc' = errc /\ delivered' = delivered]_vars

\* C11 witness: with no static remote and an empty table, the pump read a
\* valid IPv4 packet and is back at its read with nothing written and no error.
C11_Witness ==
    /\ raddr = Nil /\ routes = EmptyMap
    /\ ValidIPv4(b1) /\ pc1 = "read" /\ n1 = 1
    /\ net = <<>> /\ delivered = <<>> /\ e1 = Nil

(***************************************************************************)
(* Properties of the handler.                                              *)
(***************************************************************************)
\* the deferred calls still to run
Scheduled ==
    {defers[i] : i \in DOMAIN defers}

\* C12: once the relay has returned to the handler, the interface and the
\* connection are each either still scheduled for release or released, with
\* the process exit scheduled behind them; when the process is terminated
\* both are released; and the handler never returns to its caller.
C12_ReleaseThenExit ==
    /\ hpc # "returned"
    /\ (spc = "returned" /\ hpc = "deferred") =>
          /\ "os.Exit" \in Scheduled
          /\ tunHeld <=> "tc.Close" \in Scheduled
          /\ connHeld <=> "conn.Close" \in Scheduled
    /\ (spc = "returned" /\ hpc = "exited") =>
          /\ ~tunHeld
          /\ ~connHeld

\* C12 witness: the relay returned and the process has been terminated.
C12_Witness ==
    /\ spc = "returned" /\ hpc = "exited"
    /\ defers = <<>>

\* interface allocation or a configuration step failed
CreateTunFailed ==
    hfail \in {"water.New"} \cup {SetupSteps[i] : i \in DOMAIN SetupSteps}

\* C13: when interface allocation or a configuration step fails, the relay
\* is not run, no step is retried, and no virtual interface is held.
C13_NothingHeldOnAbort ==
    CreateTunFailed =>
        /\ hpc \in {"deferred", "exited"}
        /\ spc = "recv" /\ n1 = 0 /\ n2 = 0
        /\ ~tunHeld

(***************************************************************************)
(* Properties of the relay's termination.                                  *)
(***************************************************************************)
\* C14: a pump that holds an error for delivery never blocks for ever at its
\* send on the error channel: under every interleaving its send completes and
\* its loop exits.
C14_SendCompletes ==
    /\ (pc1 = "send") ~> (pc1 = "exit")
    /\ (pc2 = "send") ~> (pc2 = "exit")

\* C14 witness: both pumps failed and both sends completed, the second after
\* the session had taken the first error.
C14_Witness ==
    /\ pc1 = "exit" /\ pc2 = "exit"
    /\ Len(delivered) = 2
    /\ spc = "returned"

\* C15: the session has returned only if some pump delivered a terminal
\* error, and once a pump holds a terminal error the session eventually
\* returns, whether or not the other pump ever leaves its read: the session
\* does not wait for both pumps.
C15_ReturnsOnFirstError ==
    /\ [](spc = "returned" => Len(delivered) >= 1)
    /\ (pc1 = "send" \/ pc2 = "send") ~> (spc = "returned")

\* C15 witness: the session returned on the first pump's error while the
\* second pump has not come back from its first read.
C15_Witness ==
    /\ spc = "returned"
    /\ pc1 = "exit" /\ delivered = <<e1>>
    /\ pc2 = "read" /\ n2 = 0

(***************************************************************************)
(* Properties of the listener, continued.                                  *)
(***************************************************************************)
\* C16: under any interleaving of Accept and Close calls on one listener no
\* goroutine signals accepted or closed a second time (a second close of
\* either channel), and at most one Accept returns the connection.
C16_SignalledOnce ==
    /\ ~panicked
    /\ handed <= 1

(***************************************************************************)
(* Properties of the learning table, continued.                            *)
(***************************************************************************)
\* the source IPs of the datagrams written to the interface so far
WrittenSources ==
    {tun[i].src : i \in DOMAIN tun}

\* C17: the source of a datagram is in the table before the datagram is
\* written to the interface: the table holds an entry for the source of every
\* datagram written and of the one about to be written, and the lookup of a
\* packet whose destination is such a source resolves to the learned address
\* and goes on to the transport write, never to the static remote or a drop.
C17_LearnedBeforeWritten ==
    /\ [](/\ WrittenSources \subseteq DOMAIN routes
          /\ pc2 = "write" => b2.src \in DOMAIN routes)
    /\ [][(pc1 = "route" /\ pc1' # "route" /\ b1.dst \in WrittenSources)
          => /\ b1.dst \in DOMAIN routes
             /\ pc1' = "write"
             /\ a1' = routes[b1.dst]]_vars

\* C17 witness: a datagram with source S was written to the interface and a
\* packet for S is on its way to the learned address, which is not the static
\* remote.
C17_Witness ==
    /\ pc1 = "write"
    /\ b1.dst \in WrittenSources
    /\ a1 = routes[b1.dst]
    /\ a1 # raddr /\ raddr # Nil

(***************************************************************************)
(* Properties of the forwarding order.                                     *)
(***************************************************************************)
\* w can be obtained from r by deleting elements
RECURSIVE IsSubseq(_, _)
IsSubseq(w, r) ==
    IF w = <<>> THEN TRUE
    ELSE IF r = <<>> THEN FALSE
    ELSE IF Head(w) = Head(r) THEN IsSubseq(Tail(w), Tail(r))
    ELSE IsSubseq(w, Tail(r))

\* the buffers written to the transport, in order
NetBuffers ==
    [i \in DOMAIN net |-> net[i][1]]

\* C18: in each direction the buffers written are, in order and byte for
\* byte, a subsequence of the buffers read, and every write adds exactly one
\* buffer, the one read last by that pump, once per read.
C18_OrderPreserved ==
    /\ [](/\ IsSubseq(NetBuffers, rd1)
          /\ IsSubseq(tun, rd2))
    /\ [][/\ net' # net =>
               /\ pc1 = "write" /\ pc1' = "read"
               /\ rd1 # <<>> /\ b1 = rd1[Len(rd1)]
               /\ Len(net') = Len(net) + 1
               /\ net'[Len(net')][1] = b1
               /\ SubSeq(net', 1, Len(net)) = net
          /\ tun' # tun =>
               /\ pc2 = "write" /\ pc2' = "read"
               /\ rd2 # <<>> /\ b2 = rd2[Len(rd2)]
               /\ tun' = Append(tun, b2)]_vars

\* C18 witness: the interface->transport pump dropped its first read and
\* forwarded its second, the transport->interface pump forwarded two
\* different datagrams in the order read.
C18_Witness ==
    /\ Len(rd1) = 2 /\ rd1[1] # rd1[2]
    /\ NetBuffers = <<rd1[2]>>
    /\ Len(rd2) = 2 /\ rd2[1] # rd2[2]
    /\ tun = rd2

(***************************************************************************)
(* Properties of the buffer pools.                                         *)
(***************************************************************************)
\* C19: every buffer put back by a pump, on every iteration and exit path,
\* goes into the pool it was drawn from.
C19_SamePool ==
    \A p \in puts : p[1] = p[2]

(***************************************************************************)
(* Frame of the learning table.                                            *)
(***************************************************************************)
\* C20: the table changes only in the learning step of the
\* transport->interface pump, for a datagram that parsed as valid IPv4, and
\* only by adding an entry that maps the datagram's source IP to its sender;
\* every other step (the interface->transport pump, read errors, dropped
\* datagrams) leaves it unchanged, and the set of entries only grows.
C20_OnlyLearningAdds ==
    [][/\ routes' # routes =>
            /\ pc2 = "learn" /\ pc2' = "write"
            /\ ValidIPv4(b2)
            /\ b2.src \notin DOMAIN routes
            /\ DOMAIN routes' = DOMAIN routes \cup {b2.src}
            /\ routes'[b2.src] = from2
            /\ \A k \in DOMAIN routes : routes'[k] = routes[k]
            /\ pc1' = pc1
       /\ DOMAIN routes \subseteq DOMAIN routes']_vars

\* C20 witness: two sources were learned one after the other while the
\* interface->transport pump read packets.
C20_Witness ==
    /\ Cardinality(DOMAIN routes) = 2
    /\ Len(rd1) >= 1
    /\ pc2 = "write"

=============================================================================
